---- MODULE Spec2Model ----
(***************************************************************************)
(* A model of ras (src/src/main.rs): the batch scheduler of main, the      *)
(* per-paper pipeline process_paper, the extraction sandbox                *)
(* extract_text_silent with its detached thread, and the retrying client   *)
(* generate_summary.                                                       *)
(*                                                                         *)
(* Spec         the whole run: main filters the fetched papers, spawns one *)
(*              thread per paper of a chunk, joins them, goes on to the    *)
(*              next chunk.  Every system call that touches state shared   *)
(*              between threads (the two directories, fd 1 and fd 2, the   *)
(*              channel) is a step of its own.  generate_summary touches   *)
(*              no shared state and is one step there, computed by the     *)
(*              same loop body that SpecSummary steps through.             *)
(* SpecSummary  one call of generate_summary, one loop iteration per step, *)
(*              with the list of the responses it has consumed.            *)
(* SpecFair     Spec under fair scheduling, for termination.               *)
(* SpecTwice    the program run twice in sequence on the same feed.        *)
(* SpecDup      a feed in which two titles sanitize to the same key.       *)
(* SpecFilter   the filter of main on keys and directory contents of every *)
(*              shape, file names being strings.                           *)
(***************************************************************************)
EXTENDS Integers, Sequences, FiniteSets, TLC

(***************************************************************************)
(* Bounds of the model.                                                    *)
(***************************************************************************)
\* number of papers fetch_arxiv_papers returns (the code caps it at 100)
NumItems == 3
\* papers per chunk; the code uses chunks(10), the model a smaller group
ChunkSize == 2
\* the 120 s of recv_timeout, counted in clock ticks
Deadline == 1
\* how many of the first papers may already have a file in papers/ at start
MaxCached == 1
\* how many of the first papers may already have a summary at start
MaxExisting == 1
\* the longest key, in tokens, of the paper whose key SpecFilter varies
MaxKeyLen == 2
\* the most files summary/ holds at the start of SpecFilter
MaxFiles == 2

(***************************************************************************)
(* Program constants.                                                      *)
(***************************************************************************)
\* main.rs:408  let max_retries = 3
max_retries == 3
\* main.rs:161  metadata.len() < 1000
MinPdfBytes == 1000

Items == 1..NumItems

(***************************************************************************)
(* File names.  A string is a sequence of tokens: the literal              *)
(* "-summary.md" is one token and every other character is a token of its  *)
(* own.  No proper prefix of "-summary.md" is a suffix of it, so its        *)
(* occurrences in a string never overlap and appending it creates no new   *)
(* occurrence across the seam: the tokens of a string are unique.          *)
(***************************************************************************)
\* main.rs:186, 202, 203  the literal "-summary.md"
Suffix == "-summary.md"

\* the other characters of the titles
Alphabet == <<"a", "b", "c", "d">>

\* str::ends_with (main.rs:202)
ends_with(s, pat) ==
    /\ Len(s) >= Len(pat)
    /\ SubSeq(s, Len(s) - Len(pat) + 1, Len(s)) = pat

\* str::trim_end_matches (main.rs:203): removes pat from the end of s as
\* long as s ends with it
RECURSIVE trim_end_matches(_, _)
trim_end_matches(s, pat) ==
    IF pat # << >> /\ ends_with(s, pat)
    THEN trim_end_matches(SubSeq(s, 1, Len(s) - Len(pat)), pat)
    ELSE s

\* main.rs:186  format!("{}-summary.md", sanitize_filename(&paper.title))
summary_filename(k) == k \o <<Suffix>>

\* The keys of the papers of a feed whose titles are distinct letters.
Titles == [i \in Items |-> <<Alphabet[i]>>]

\* sizes of the body a download may deliver, and of a file found in the cache
DlSizes == {MinPdfBytes - 1, MinPdfBytes}
\* -1 stands for "no such file"
NoFile == -1

\* HTTP status codes the endpoint answers with (RFC 9110: 100..599)
Statuses == {200, 401, 404, 429, 500, 503}

VARIABLES
    mainPc,      \* main: "filter", "spawn", "join", "done"
    todo,        \* papers_to_process, a sequence of items
    base,        \* number of papers in the chunks already drained
    handles,     \* handles of the current chunk not yet joined
    processed,   \* main's counter
    printed,     \* the values of the "Progress: n/total" lines printed so far
    run,         \* 1 in the first run of the program, 2 in the one after it
    earlier,     \* what the run before left: [files, outcome], in run 2
    key,         \* item -> sanitize_filename(title), a string
    pc,          \* item -> where its process_paper thread is
    outcome,     \* item -> ProcessingOutcome, "none" while running
    spawns,      \* item -> number of thread::spawn calls made for it
    joins,       \* item -> number of handle.join() calls returned for it
    pdf,         \* key -> size of papers/<key>.pdf, NoFile if absent
    summary,     \* file name -> [st, by]: the files of summary/
    bytes,       \* item -> size of the body download_pdf holds, 0 if none
    fd,          \* 1..2 -> what the descriptor refers to
    thPc,        \* item -> where its extraction thread is
    saved,       \* item -> 1..2 -> what stdout_fd / stderr_fd refer to
    thRes,       \* item -> result of catch_unwind in its thread, "none" before
    chan,        \* item -> the message in its channel, "none" if empty
    waited,      \* item -> ticks spent in recv_timeout
    extOut,      \* item -> ExtractionOutcome the caller got, "none" before
    sum,         \* item -> "Ok" / "Err" as generate_summary returned, "none" before
    detached,    \* item -> its open download file was unlinked under it
    gs           \* the generate_summary call SpecSummary steps through

vars == <<mainPc, todo, base, handles, processed, printed, run, earlier, key, pc,
          outcome, spawns, joins, pdf, summary, bytes, fd, thPc, saved, thRes,
          chan, waited, extOut, sum, detached, gs>>

mainVars == <<mainPc, todo, base, handles, processed, printed>>
runVars == <<run, earlier, key>>
fsVars == <<pdf, summary, detached>>
thVars == <<fd, thPc, saved, thRes, chan>>

(***************************************************************************)
(* generate_summary (main.rs:373-468)                                      *)
(***************************************************************************)
\* What one request can come back with.  body matters for a 2xx only.
Responses ==
    {[kind |-> "transport", status |-> 0, body |-> "none"],
     [kind |-> "bodyerr", status |-> 200, body |-> "none"]}
    \cup {[kind |-> "http", status |-> s, body |-> "any"] :
             s \in Statuses \ {200}}
    \cup {[kind |-> "http", status |-> 200, body |-> b] :
             b \in {"malformed", "nochoices", "ok"}}

NoError == [tag |-> "none", code |-> 0]

\* status.is_success()
IsSuccess(status) == status >= 200 /\ status <= 299

\* IsRetryStatus with the bug of retrying every client error too
IsRetryStatus_All4xx(status) == status >= 400

\* main.rs:438  status.as_u16() == 429 || status.as_u16() >= 500
IsRetryStatus(status) == status = 429 \/ status >= 500

\* The state of the loop before its first iteration (main.rs:408-409).
GsStart ==
    [attempt |-> 0, last_error |-> NoError, ret |-> "none",
     msg |-> NoError, retries |-> 0, sent |-> 0, slept |-> 0, hist |-> << >>]

\* One iteration of `for attempt in 0..max_retries` on the response r
\* (main.rs:411-465).  `continue` leaves ret = "none" and moves to the next
\* attempt; `return` sets ret.  slept is the thread::sleep before the request
\* (main.rs:412-414), in ms.
AttemptBody(st, r) ==
    LET s == [st EXCEPT !.sent = @ + 1, !.hist = Append(@, r),
                        !.attempt = @ + 1,
                        !.slept = IF st.attempt > 0
                                  THEN 500 * (st.attempt + 1) ELSE 0]
    IN  IF r.kind = "transport"
        THEN [s EXCEPT !.last_error = [tag |-> "transport", code |-> 0]]
        ELSE IF r.kind = "bodyerr"
        THEN [s EXCEPT !.last_error = [tag |-> "body", code |-> 0]]
        ELSE IF IsRetryStatus(r.status)
        THEN [s EXCEPT !.last_error = [tag |-> "api", code |-> r.status]]
        ELSE IF ~IsSuccess(r.status)
        THEN [s EXCEPT !.ret = "Err",
                       !.msg = [tag |-> "api", code |-> r.status]]
        ELSE IF r.body = "malformed"
        THEN [s EXCEPT !.last_error = [tag |-> "parse", code |-> 0]]
        ELSE IF r.body = "nochoices"
        THEN [s EXCEPT !.ret = "Err",
                       !.msg = [tag |-> "noresponse", code |-> 0]]
        ELSE [s EXCEPT !.ret = "Ok"]

\* AfterLoop with the bug of counting the retries after the first attempt
AfterLoop_OffByOne(st) ==
    [st EXCEPT !.ret = "Err", !.msg = st.last_error,
               !.retries = max_retries - 1]

\* main.rs:467  Err(format!("Failed after {} retries: {}", max_retries, last_error))
AfterLoop(st) ==
    [st EXCEPT !.ret = "Err", !.msg = st.last_error, !.retries = max_retries]

\* The loop runs while no iteration has returned and attempts are left.
LoopRuns(st) == st.ret = "none" /\ st.attempt < max_retries

\* The whole call on the responses rs, of which it consumes what it needs.
RECURSIVE RunLoop(_, _)
RunLoop(st, rs) ==
    IF LoopRuns(st) /\ rs # << >>
    THEN RunLoop(AttemptBody(st, Head(rs)), Tail(rs))
    ELSE IF st.ret = "none" THEN AfterLoop(st) ELSE st

ResponseSeqs == [1..max_retries -> Responses]

\* Every way a call of generate_summary can go, without the list of responses.
Forget(st) == [st EXCEPT !.hist = << >>, !.slept = 0]

SummaryRuns == {Forget(RunLoop(GsStart, rs)) : rs \in ResponseSeqs}

\* The variants of the Result it can return.
SummaryRets == {r.ret : r \in SummaryRuns}

(***************************************************************************)
(* main (main.rs:73-139)                                                   *)
(***************************************************************************)
Min(a, b) == IF a < b THEN a ELSE b
Max(a, b) == IF a > b THEN a ELSE b

\* The papers fetch_arxiv_papers returned, in order.
papers == [i \in Items |-> i]

\* The names of the files summary/ holds, whatever they hold.
read_dir == {n \in DOMAIN summary : summary[n].st # "absent"}

\* get_existing_summaries (main.rs:197-210): of every file whose name ends
\* with "-summary.md", the name with trim_end_matches applied.
get_existing_summaries ==
    {trim_end_matches(n, <<Suffix>>) :
        n \in {m \in read_dir : ends_with(m, <<Suffix>>)}}

\* papers_to_process without the filter
papers_to_process_NoFilter == papers

\* main.rs:96-99  filter(|p| !existing_summaries.contains(&sanitize_filename(&p.title)))
papers_to_process ==
    SelectSeq(papers, LAMBDA i : key[i] \notin get_existing_summaries)

\* main.rs:108-111  chunks(10): the chunk that starts after b papers ends here
ChunkEnd(b) == Min(b + ChunkSize, Len(todo))

\* JoinReady with the bug of not waiting for the thread
JoinReady_NoWait(h) == TRUE

\* main.rs:132  handle.join() returns once the thread has finished, by
\* returning or by panicking
JoinReady(h) == pc[h] = "done"

\* The chunk (0, 1, ...) the item is in, -1 for an item filtered out.
ChunkOf(i) ==
    IF \E n \in 1..Len(todo) : todo[n] = i
    THEN ((CHOOSE n \in 1..Len(todo) : todo[n] = i) - 1) \div ChunkSize
    ELSE 0 - 1

MainFilter ==
    /\ mainPc = "filter"
    /\ todo' = papers_to_process
    /\ outcome' = [i \in Items |->
                      IF \E n \in 1..Len(papers_to_process) :
                             papers_to_process[n] = i
                      THEN outcome[i] ELSE "Skipped"]
    /\ mainPc' = IF papers_to_process = << >> THEN "done" ELSE "spawn"
    /\ UNCHANGED <<base, handles, processed, printed, runVars, pc, spawns, joins, fsVars,
                   bytes, thVars, waited, extOut, sum, gs>>

\* main.rs:119-129  one thread::spawn per paper of the chunk
MainSpawn ==
    /\ mainPc = "spawn"
    /\ LET idx == base + Len(handles) + 1
           i == todo[idx]
       IN  /\ idx <= ChunkEnd(base)
           /\ pc' = [pc EXCEPT ![i] = "start"]
           /\ spawns' = [spawns EXCEPT ![i] = @ + 1]
           /\ handles' = Append(handles, i)
           /\ mainPc' = IF idx = ChunkEnd(base) THEN "join" ELSE "spawn"
    /\ UNCHANGED <<todo, base, processed, printed, runVars, outcome, joins, fsVars, bytes,
                   thVars, waited, extOut, sum, gs>>

\* Counted with the bug of counting only the tasks that did not panic
Counted_OkOnly(h) == IF outcome[h] = "Panicked" THEN 0 ELSE 1

\* main.rs:132-133  let _ = handle.join(); processed += 1: what join
\* returned is dropped, every joined task counts
Counted(h) == 1

\* main.rs:131-135  join the handles in order, count, print the progress
\* line, go to the next chunk
MainJoin ==
    /\ mainPc = "join"
    /\ handles # << >>
    /\ JoinReady(Head(handles))
    /\ joins' = [joins EXCEPT ![Head(handles)] = @ + 1]
    /\ processed' = processed + Counted(Head(handles))
    /\ printed' = Append(printed, processed + Counted(Head(handles)))
    /\ handles' = Tail(handles)
    /\ IF Tail(handles) = << >>
       THEN /\ base' = ChunkEnd(base)
            /\ mainPc' = IF ChunkEnd(base) >= Len(todo) THEN "done" ELSE "spawn"
       ELSE UNCHANGED <<base, mainPc>>
    /\ UNCHANGED <<todo, runVars, pc, outcome, spawns, fsVars, bytes, thVars,
                   waited, extOut, sum, gs>>

(***************************************************************************)
(* process_paper (main.rs:141-195) and download_pdf (main.rs:365-371)      *)
(***************************************************************************)
\* The thread of item i runs and the process has not exited.
Running(i, p) == pc[i] = p /\ mainPc # "done"

Goto(i, p) == pc' = [pc EXCEPT ![i] = p] /\ UNCHANGED outcome

\* return from process_paper (or unwind out of it) with the outcome o
Finish(i, o) ==
    /\ pc' = [pc EXCEPT ![i] = "done"]
    /\ outcome' = [outcome EXCEPT ![i] = o]

\* TooSmall with the comparison off by one
TooSmall_OffByOne(len) == len <= MinPdfBytes

\* main.rs:161  metadata.len() < 1000
TooSmall(len) == len < MinPdfBytes

\* main.rs:147  if !pdf_path.exists()
Start(i) ==
    /\ Running(i, "start")
    /\ Goto(i, IF pdf[key[i]] = NoFile THEN "dl_net" ELSE "gate")
    /\ UNCHANGED <<mainVars, runVars, spawns, joins, fsVars, bytes, thVars,
                   waited, extOut, sum, gs>>

\* main.rs:366-367  client.get(url).send() and response.bytes()
DlNet(i) ==
    /\ Running(i, "dl_net")
    /\ \/ /\ Finish(i, "DownloadFailed")
          /\ UNCHANGED bytes
       \/ \E n \in DlSizes :
             /\ bytes' = [bytes EXCEPT ![i] = n]
             /\ Goto(i, "dl_create")
    /\ UNCHANGED <<mainVars, runVars, spawns, joins, fsVars, thVars, waited,
                   extOut, sum, gs>>

\* main.rs:368  fs::File::create(path): creates the file or truncates it
DlCreate(i) ==
    /\ Running(i, "dl_create")
    /\ \/ /\ Finish(i, "DownloadFailed")
          /\ bytes' = [bytes EXCEPT ![i] = 0]
          /\ UNCHANGED fsVars
       \/ /\ pdf' = [pdf EXCEPT ![key[i]] = 0]
          /\ detached' = [detached EXCEPT ![i] = FALSE]
          /\ Goto(i, "dl_write")
          /\ UNCHANGED <<summary, bytes>>
    /\ UNCHANGED <<mainVars, runVars, spawns, joins, thVars, waited, extOut, sum,
                   gs>>

\* main.rs:369  file.write_all(&bytes): into the file this thread opened,
\* which is no longer papers/<key>.pdf if that was removed meanwhile
DlWrite(i) ==
    /\ Running(i, "dl_write")
    /\ bytes' = [bytes EXCEPT ![i] = 0]
    /\ detached' = [detached EXCEPT ![i] = FALSE]
    /\ \/ /\ Finish(i, "DownloadFailed")
          /\ UNCHANGED pdf
       \/ /\ pdf' = IF detached[i] THEN pdf
                    ELSE [pdf EXCEPT ![key[i]] = Max(@, bytes[i])]
          /\ Goto(i, "gate")
    /\ UNCHANGED <<mainVars, runVars, spawns, joins, summary, thVars, waited,
                   extOut, sum, gs>>

\* main.rs:160-161  if let Ok(metadata) = fs::metadata(&pdf_path)
Gate(i) ==
    /\ Running(i, "gate")
    /\ Goto(i, IF pdf[key[i]] # NoFile /\ TooSmall(pdf[key[i]])
               THEN "gate_rm" ELSE "extract")
    /\ UNCHANGED <<mainVars, runVars, spawns, joins, fsVars, bytes, thVars,
                   waited, extOut, sum, gs>>

\* main.rs:163-164  let _ = fs::remove_file(&pdf_path); return.  The
\* removal of a file of the program's own directory is taken to succeed.
GateRm(i) ==
    /\ Running(i, "gate_rm")
    /\ pdf' = [pdf EXCEPT ![key[i]] = NoFile]
    /\ detached' = [j \in Items |->
                       detached[j] \/ (pc[j] = "dl_write" /\ key[j] = key[i])]
    /\ Finish(i, "CorruptDownload")
    /\ UNCHANGED <<mainVars, runVars, spawns, joins, summary, bytes, thVars,
                   waited, extOut, sum, gs>>

(***************************************************************************)
(* extract_text_silent (main.rs:330-363)                                   *)
(***************************************************************************)
\* main.rs:169 -> 332-334  the channel is made and the thread spawned; the
\* caller goes to rx.recv_timeout
Extract(i) ==
    /\ Running(i, "extract")
    /\ thPc' = [thPc EXCEPT ![i] = "dup1"]
    /\ waited' = [waited EXCEPT ![i] = 0]
    /\ Goto(i, "recv")
    /\ UNCHANGED <<mainVars, runVars, spawns, joins, fsVars, bytes, fd, saved,
                   thRes, chan, extOut, sum, gs>>

\* The thread of item i is at p and the process has not exited.
ThAt(i, p) == thPc[i] = p /\ mainPc # "done"

ThGoto(i, p) == thPc' = [thPc EXCEPT ![i] = p]

\* main.rs:338-339  stdout_fd = dup(1), stderr_fd = dup(2): the new
\* descriptor refers to what fd n refers to now
ThDup(i, n) ==
    /\ ThAt(i, IF n = 1 THEN "dup1" ELSE "dup2")
    /\ saved' = [saved EXCEPT ![i][n] = fd[n]]
    /\ ThGoto(i, IF n = 1 THEN "dup2" ELSE "redir1")
    /\ UNCHANGED <<mainVars, runVars, pc, outcome, spawns, joins, fsVars, bytes,
                   fd, thRes, chan, waited, extOut, sum, gs>>

\* main.rs:340-341  dup2(dev_null_fd, 1), dup2(dev_null_fd, 2)
ThRedirect(i, n) ==
    /\ ThAt(i, IF n = 1 THEN "redir1" ELSE "redir2")
    /\ fd' = [fd EXCEPT ![n] = "null"]
    /\ ThGoto(i, IF n = 1 THEN "redir2" ELSE "call")
    /\ UNCHANGED <<mainVars, runVars, pc, outcome, spawns, joins, fsVars, bytes,
                   saved, thRes, chan, waited, extOut, sum, gs>>

\* What extract_text can do on the file it finds: return text, return only
\* white space, return an error, panic.  A missing file is an error.
ExtractResults(len) ==
    IF len = NoFile THEN {"error"} ELSE {"text", "empty", "error", "panic"}

\* main.rs:345  panic::catch_unwind(|| extract_text(&path_buf)) returns.
\* A result that no receiver is left to take is kept as "dropped".
ThCall(i) ==
    /\ ThAt(i, "call")
    /\ \E r \in ExtractResults(pdf[key[i]]) :
          thRes' = [thRes EXCEPT ![i] = IF pc[i] = "recv" THEN r ELSE "dropped"]
    /\ ThGoto(i, "restore1")
    /\ UNCHANGED <<mainVars, runVars, pc, outcome, spawns, joins, fsVars, bytes,
                   fd, saved, chan, waited, extOut, sum, gs>>

\* main.rs:345  extract_text never returns: the thread stays in the call
ThHang(i) ==
    /\ ThAt(i, "call")
    /\ pdf[key[i]] # NoFile
    /\ ThGoto(i, "hung")
    /\ UNCHANGED <<mainVars, runVars, pc, outcome, spawns, joins, fsVars, bytes,
                   fd, saved, thRes, chan, waited, extOut, sum, gs>>

\* main.rs:348-351  dup2(stdout_fd, 1), dup2(stderr_fd, 2), and the close of
\* the saved descriptor
ThRestore(i, n) ==
    /\ ThAt(i, IF n = 1 THEN "restore1" ELSE "restore2")
    /\ fd' = [fd EXCEPT ![n] = saved[i][n]]
    /\ saved' = [saved EXCEPT ![i][n] = "none"]
    /\ ThGoto(i, IF n = 1 THEN "restore2" ELSE "send")
    /\ UNCHANGED <<mainVars, runVars, pc, outcome, spawns, joins, fsVars, bytes,
                   thRes, chan, waited, extOut, sum, gs>>

\* main.rs:353  let _ = tx.send(result): queued if the receiver still
\* exists, dropped if extract_text_silent has returned.  thRes keeps what
\* was sent.
ThSend(i) ==
    /\ ThAt(i, "send")
    /\ chan' = [chan EXCEPT ![i] = IF pc[i] = "recv" THEN thRes[i] ELSE @]
    /\ ThGoto(i, "end")
    /\ UNCHANGED <<mainVars, runVars, pc, outcome, spawns, joins, fsVars, bytes,
                   fd, saved, thRes, waited, extOut, sum, gs>>

\* Time passes for a caller blocked in recv_timeout with an empty channel.
Tick(i) ==
    /\ Running(i, "recv")
    /\ chan[i] = "none"
    /\ waited[i] < Deadline
    /\ waited' = [waited EXCEPT ![i] = @ + 1]
    /\ UNCHANGED <<mainVars, runVars, pc, outcome, spawns, joins, fsVars, bytes,
                   thVars, extOut, sum, gs>>

\* TimedOut with the bug of not waiting (try_recv for recv_timeout)
TimedOut_NoWait(i) == TRUE

\* TimedOut with the bug of waiting without a timeout (recv for
\* recv_timeout)
TimedOut_Never(i) == FALSE

\* main.rs:357  recv_timeout gives up once the whole timeout has passed
TimedOut(i) == waited[i] = Deadline

\* OutcomeOf with the bug of reading a caught panic as an extraction error
OutcomeOf_PanicAsError(m) ==
    CASE m = "text" -> "Text"
      [] m = "empty" -> "EmptyText"
      [] m = "error" -> "ExtractionError"
      [] m = "panic" -> "ExtractionError"

\* main.rs:358-360 and 171: the ExtractionOutcome for a received message
OutcomeOf(m) ==
    CASE m = "text" -> "Text"
      [] m = "empty" -> "EmptyText"
      [] m = "error" -> "ExtractionError"
      [] m = "panic" -> "Crashed"

\* AfterExtract without the test for empty text
AfterExtract_NoEmptyTest(i, o) ==
    IF o \in {"Text", "EmptyText"}
    THEN Goto(i, "summarize") ELSE Finish(i, "ExtractionFailed")

\* main.rs:169-181  what process_paper does with the outcome
AfterExtract(i, o) ==
    IF o = "Text" THEN Goto(i, "summarize") ELSE Finish(i, "ExtractionFailed")

\* main.rs:357-360  recv_timeout returns the message
Recv(i) ==
    /\ Running(i, "recv")
    /\ chan[i] # "none"
    /\ extOut' = [extOut EXCEPT ![i] = OutcomeOf(chan[i])]
    /\ chan' = [chan EXCEPT ![i] = "none"]
    /\ waited' = [waited EXCEPT ![i] = 0]
    /\ AfterExtract(i, OutcomeOf(chan[i]))
    /\ UNCHANGED <<mainVars, runVars, spawns, joins, fsVars, bytes, fd, thPc,
                   saved, thRes, sum, gs>>

\* main.rs:361  Err(_) => Err("PDF extraction timed out"); rx is dropped, so
\* a result the thread holds can no longer be delivered
Timeout(i) ==
    /\ Running(i, "recv")
    /\ chan[i] = "none"
    /\ TimedOut(i)
    /\ extOut' = [extOut EXCEPT ![i] = "Timeout"]
    /\ thRes' = [thRes EXCEPT ![i] = IF @ = "none" THEN @ ELSE "dropped"]
    /\ AfterExtract(i, "Timeout")
    /\ UNCHANGED <<mainVars, runVars, spawns, joins, fsVars, bytes, fd, thPc,
                   saved, chan, waited, sum, gs>>

(***************************************************************************)
(* process_paper, after the extraction (main.rs:183-195)                   *)
(***************************************************************************)
\* main.rs:186-187  summary_dir.join(&summary_filename), as a file name
summary_path(i) == summary_filename(key[i])

\* AfterSummary with the bug of taking the Err arm for every result
AfterSummary_AlwaysErr(i, ret) == Finish(i, "SummarizationFailed")

\* main.rs:184-193  match generate_summary(..)
AfterSummary(i, ret) ==
    IF ret = "Ok" THEN Goto(i, "persist_create")
    ELSE Finish(i, "SummarizationFailed")

\* generate_summary returns Ok(..) or Err(..) to process_paper
Returned(i, ret) ==
    /\ Running(i, "summarize")
    /\ sum' = [sum EXCEPT ![i] = ret]
    /\ AfterSummary(i, ret)
    /\ UNCHANGED <<mainVars, runVars, spawns, joins, fsVars, bytes, thVars,
                   waited, extOut>>

\* main.rs:184  the whole call generate_summary(..), on any responses
Summarize(i) ==
    /\ \E ret \in SummaryRets : Returned(i, ret)
    /\ UNCHANGED gs

\* main.rs:188  fs::write(..).expect(..): the file is created or truncated,
\* and an error panics
PersistCreate(i) ==
    /\ Running(i, "persist_create")
    /\ \/ /\ Finish(i, "Panicked")
          /\ UNCHANGED summary
       \/ /\ summary' = [summary EXCEPT ![summary_path(i)] =
                            [st |-> "partial", by |-> i]]
          /\ Goto(i, "persist_write")
    /\ UNCHANGED <<mainVars, runVars, spawns, joins, pdf, detached, bytes, thVars,
                   waited, extOut, sum, gs>>

\* main.rs:188  fs::write(..).expect(..): the content is written, and an
\* error panics
PersistWrite(i) ==
    /\ Running(i, "persist_write")
    /\ \/ /\ Finish(i, "Panicked")
          /\ UNCHANGED summary
       \/ /\ summary' = [summary EXCEPT ![summary_path(i)] =
                            [st |-> "complete", by |-> i]]
          /\ Finish(i, "Completed")
    /\ UNCHANGED <<mainVars, runVars, spawns, joins, pdf, detached, bytes, thVars,
                   waited, extOut, sum, gs>>

(***************************************************************************)
(* The run                                                                 *)
(***************************************************************************)
\* The state of the process when main starts (main.rs:73).
InitProcess ==
    /\ mainPc = "filter"
    /\ todo = << >>
    /\ base = 0
    /\ handles = << >>
    /\ processed = 0
    /\ printed = << >>
    /\ pc = [i \in Items |-> "idle"]
    /\ outcome = [i \in Items |-> "none"]
    /\ spawns = [i \in Items |-> 0]
    /\ joins = [i \in Items |-> 0]
    /\ bytes = [i \in Items |-> 0]
    /\ fd = <<"stdout", "stderr">>
    /\ thPc = [i \in Items |-> "none"]
    /\ saved = [i \in Items |-> <<"none", "none">>]
    /\ thRes = [i \in Items |-> "none"]
    /\ chan = [i \in Items |-> "none"]
    /\ waited = [i \in Items |-> 0]
    /\ extOut = [i \in Items |-> "none"]
    /\ sum = [i \in Items |-> "none"]
    /\ detached = [i \in Items |-> FALSE]
    /\ gs = GsStart

NoEarlier == [files |-> {}, outcome |-> << >>]

\* What is the same at the start of every first run.
InitRun ==
    /\ InitProcess
    /\ run = 1
    /\ earlier = NoEarlier

\* The two directories for papers with the keys ks: the keys of the first
\* cached of the papers may have a file in papers/ and the keys of the
\* first existing of them a summary, left by an earlier run.
PdfFiles(ks, cached) ==
    {f \in [{ks[i] : i \in Items} -> {NoFile} \cup DlSizes] :
        \A k \in DOMAIN f :
            (\A i \in 1..cached : ks[i] # k) => f[k] = NoFile}

Absent == [st |-> "absent", by |-> 0]
Existing == [st |-> "complete", by |-> 0]

SummaryFiles(ks, existing) ==
    {f \in [{summary_filename(ks[i]) : i \in Items} -> {Absent, Existing}] :
        \A n \in DOMAIN f :
            (\A i \in 1..existing : summary_filename(ks[i]) # n)
                => f[n] = Absent}

\* The papers have titles with distinct keys.
Init ==
    /\ InitRun
    /\ key = Titles
    /\ pdf \in PdfFiles(Titles, MaxCached)
    /\ summary \in SummaryFiles(Titles, MaxExisting)

Next ==
    \/ MainFilter
    \/ MainSpawn
    \/ MainJoin
    \/ \E i \in Items : Start(i)
    \/ \E i \in Items : DlNet(i)
    \/ \E i \in Items : DlCreate(i)
    \/ \E i \in Items : DlWrite(i)
    \/ \E i \in Items : Gate(i)
    \/ \E i \in Items : GateRm(i)
    \/ \E i \in Items : Extract(i)
    \/ \E i \in Items, n \in 1..2 : ThDup(i, n)
    \/ \E i \in Items, n \in 1..2 : ThRedirect(i, n)
    \/ \E i \in Items : ThCall(i)
    \/ \E i \in Items : ThHang(i)
    \/ \E i \in Items, n \in 1..2 : ThRestore(i, n)
    \/ \E i \in Items : ThSend(i)
    \/ \E i \in Items : Tick(i)
    \/ \E i \in Items : Recv(i)
    \/ \E i \in Items : Timeout(i)
    \/ \E i \in Items : Summarize(i)
    \/ \E i \in Items : PersistCreate(i)
    \/ \E i \in Items : PersistWrite(i)

Spec == Init /\ [][Next]_vars

\* The run under fair scheduling: the operating system lets every thread
\* that can take a step take one, the clock of recv_timeout goes on, and
\* every network call returns or fails.  A step that stays possible is
\* taken in the end.
SpecFair == Init /\ [][Next]_vars /\ WF_vars(Next)

(***************************************************************************)
(* One call of generate_summary, step by step                              *)
(***************************************************************************)
\* The first paper has been downloaded and extracted, and its thread calls
\* generate_summary while main is still spawning the chunk.
InitSummary ==
    /\ mainPc = "spawn"
    /\ todo = papers
    /\ base = 0
    /\ handles = <<1>>
    /\ processed = 0
    /\ printed = << >>
    /\ run = 1
    /\ earlier = NoEarlier
    /\ key = Titles
    /\ pc = [i \in Items |-> IF i = 1 THEN "summarize" ELSE "idle"]
    /\ outcome = [i \in Items |-> "none"]
    /\ spawns = [i \in Items |-> IF i = 1 THEN 1 ELSE 0]
    /\ joins = [i \in Items |-> 0]
    /\ pdf = [k \in {Titles[i] : i \in Items} |->
                 IF k = Titles[1] THEN MinPdfBytes ELSE NoFile]
    /\ summary = [n \in {summary_filename(Titles[i]) : i \in Items} |->
                     Absent]
    /\ bytes = [i \in Items |-> 0]
    /\ fd = <<"stdout", "stderr">>
    /\ thPc = [i \in Items |-> IF i = 1 THEN "end" ELSE "none"]
    /\ saved = [i \in Items |-> <<"none", "none">>]
    /\ thRes = [i \in Items |-> IF i = 1 THEN "text" ELSE "none"]
    /\ chan = [i \in Items |-> "none"]
    /\ waited = [i \in Items |-> 0]
    /\ extOut = [i \in Items |-> IF i = 1 THEN "Text" ELSE "none"]
    /\ sum = [i \in Items |-> "none"]
    /\ detached = [i \in Items |-> FALSE]
    /\ gs = GsStart

pipeVars == <<mainPc, todo, base, handles, processed, printed, run, earlier, key, pc,
              outcome, spawns, joins, pdf, summary, bytes, fd, thPc, saved,
              thRes, chan, waited, extOut, sum, detached>>

\* main.rs:411-465  one iteration of the loop, on any response
GsAttempt ==
    /\ pc[1] = "summarize"
    /\ LoopRuns(gs)
    /\ \E r \in Responses : gs' = AttemptBody(gs, r)
    /\ UNCHANGED pipeVars

\* main.rs:467  the loop ran out of attempts
GsAfterLoop ==
    /\ pc[1] = "summarize"
    /\ gs.ret = "none"
    /\ ~LoopRuns(gs)
    /\ gs' = AfterLoop(gs)
    /\ UNCHANGED pipeVars

\* main.rs:184  the call returns to process_paper
GsReturn ==
    /\ gs.ret # "none"
    /\ Returned(1, gs.ret)
    /\ UNCHANGED gs

NextSummary ==
    \/ GsAttempt
    \/ GsAfterLoop
    \/ GsReturn
    \/ PersistCreate(1)
    \/ PersistWrite(1)

SpecSummary == InitSummary /\ [][NextSummary]_vars

(***************************************************************************)
(* The program run twice on the same feed                                  *)
(***************************************************************************)
\* Only the first paper lacks a summary at the start.
InitTwice ==
    /\ InitRun
    /\ key = Titles
    /\ pdf \in PdfFiles(Titles, MaxCached)
    /\ summary \in {f \in SummaryFiles(Titles, NumItems) :
                       \A i \in Items : i > 1 =>
                           f[summary_filename(Titles[i])] = Existing}

\* main.rs:138-139 and 73: main returns after "Done!", the process exits
\* with its threads and descriptors, and the program is started again on
\* the same feed.  The two directories stay as they are; a file is from now
\* on a file of an earlier run.
Restart ==
    /\ mainPc = "done"
    /\ run = 1
    /\ run' = 2
    /\ earlier' = [files |-> read_dir, outcome |-> outcome]
    /\ summary' = [n \in DOMAIN summary |-> [summary[n] EXCEPT !.by = 0]]
    /\ mainPc' = "filter"
    /\ todo' = << >>
    /\ base' = 0
    /\ handles' = << >>
    /\ processed' = 0
    /\ printed' = << >>
    /\ pc' = [i \in Items |-> "idle"]
    /\ outcome' = [i \in Items |-> "none"]
    /\ spawns' = [i \in Items |-> 0]
    /\ joins' = [i \in Items |-> 0]
    /\ bytes' = [i \in Items |-> 0]
    /\ fd' = <<"stdout", "stderr">>
    /\ thPc' = [i \in Items |-> "none"]
    /\ saved' = [i \in Items |-> <<"none", "none">>]
    /\ thRes' = [i \in Items |-> "none"]
    /\ chan' = [i \in Items |-> "none"]
    /\ waited' = [i \in Items |-> 0]
    /\ extOut' = [i \in Items |-> "none"]
    /\ sum' = [i \in Items |-> "none"]
    /\ detached' = [i \in Items |-> FALSE]
    /\ UNCHANGED <<key, pdf, gs>>

NextTwice == Next \/ Restart

SpecTwice == InitTwice /\ [][NextTwice]_vars

(***************************************************************************)
(* A feed with two titles that sanitize to the same key                    *)
(***************************************************************************)
\* The second paper has the key of the first.
DupTitles == [i \in Items |-> IF i = 2 THEN Titles[1] ELSE Titles[i]]

\* No paper has a summary at the start; the shared key may have a file in
\* papers/.
InitDup ==
    /\ InitRun
    /\ key = DupTitles
    /\ pdf \in PdfFiles(DupTitles, MaxCached)
    /\ summary \in SummaryFiles(DupTitles, 0)

SpecDup == InitDup /\ [][Next]_vars

(***************************************************************************)
(* The filter of main on keys and directories of every shape               *)
(***************************************************************************)
\* The tokens of the key that varies: two letters and the literal.
KeyTokens == {Alphabet[1], Alphabet[2], Suffix}

\* sanitize_filename (main.rs:212-220) can return every non-empty string of
\* these tokens: none of their characters is replaced or trimmed.
KeyStrings ==
    UNION {[1..n -> KeyTokens] : n \in 1..MaxKeyLen}

\* The file names summary/ may hold: names with and without the suffix.
DirNames ==
    KeyStrings \cup {summary_filename(k) : k \in KeyStrings}
        \cup {summary_filename(Titles[i]) : i \in Items}

\* The subsets of S of at most n elements.
RECURSIVE SubsetsUpTo(_, _)
SubsetsUpTo(S, n) ==
    IF n = 0 THEN {{}}
    ELSE LET smaller == SubsetsUpTo(S, n - 1)
         IN  smaller \cup {T \cup {x} : T \in smaller, x \in S}

\* The first paper has any key, the others their letters; summary/ holds
\* at most MaxFiles files of any names; papers/ is empty.
InitFilter ==
    /\ InitRun
    /\ \E k \in KeyStrings : key = [Titles EXCEPT ![1] = k]
    /\ pdf = [k \in KeyStrings \cup {Titles[i] : i \in Items} |-> NoFile]
    /\ \E held \in SubsetsUpTo(DirNames, MaxFiles) :
          summary = [n \in DirNames |->
                        IF n \in held THEN Existing ELSE Absent]

NextFilter ==
    \/ MainFilter
    \/ MainSpawn

SpecFilter == InitFilter /\ [][NextFilter]_vars

(***************************************************************************)
(* The claims.  The vocabulary first.                                      *)
(***************************************************************************)
InTodo(i) == \E n \in 1..Len(todo) : todo[n] = i

SameChunk(i, j) == i # j /\ InTodo(i) /\ InTodo(j) /\ ChunkOf(i) = ChunkOf(j)

UniqueKey(i) == \A j \in Items : j # i => key[j] # key[i]

Stdio == <<"stdout", "stderr">>

\* a failure the spec lets generate_summary retry after: a transport-level
\* error, an HTTP 429, an HTTP 5xx
RetryableResp(r) ==
    \/ r.kind \in {"transport", "bodyerr"}
    \/ r.kind = "http" /\ (r.status = 429 \/ (r.status >= 500 /\ r.status <= 599))

\* a success status whose body cannot be parsed as the expected response
MalformedResp(r) == r.kind = "http" /\ IsSuccess(r.status) /\ r.body = "malformed"

\* a non-success status other than 429 and 5xx, or a parsed response with
\* zero choices
TerminalResp(r) ==
    /\ r.kind = "http"
    /\ \/ ~IsSuccess(r.status) /\ r.status # 429
          /\ ~(r.status >= 500 /\ r.status <= 599)
       \/ IsSuccess(r.status) /\ r.body = "nochoices"

\* a success status with a well-formed, non-empty response
OkResp(r) == r.kind = "http" /\ IsSuccess(r.status) /\ r.body = "ok"

\* the error message of a failed attempt
ErrorOf(r) ==
    CASE r.kind = "transport" -> [tag |-> "transport", code |-> 0]
      [] r.kind = "bodyerr" -> [tag |-> "body", code |-> 0]
      [] OTHER -> [tag |-> "api", code |-> r.status]

\* C1: hard barrier between groups: no task of a later chunk has started
\* unless every task of every earlier chunk has finished, by returning
\* normally, by returning early on a failure, or by panicking.
C1_Barrier ==
    \A i, j \in Items :
        (InTodo(i) /\ InTodo(j) /\ ChunkOf(j) > ChunkOf(i) /\ pc[j] # "idle")
            => pc[i] = "done"

\* C1's case: a task of the second chunk runs after a task of the first
\* chunk has panicked.
C1_Witness ==
    \E i, j \in Items :
        /\ InTodo(i) /\ InTodo(j) /\ ChunkOf(j) > ChunkOf(i)
        /\ pc[j] \notin {"idle", "done"}
        /\ outcome[i] = "Panicked"

\* Each item's task is spawned at most once and joined at most once, only
\* after it has finished; when main is done every item of the work list has
\* been spawned once and joined once.
OnceEach ==
    \A i \in Items :
        /\ spawns[i] <= 1
        /\ joins[i] <= spawns[i]
        /\ joins[i] = 1 => pc[i] = "done"
        /\ ~InTodo(i) => spawns[i] = 0
        /\ (mainPc = "done" /\ InTodo(i)) => (spawns[i] = 1 /\ joins[i] = 1)

C3_RestoredOnReturn ==
    \A i \in Items :
        (extOut[i] # "none" /\ \A j \in Items : j # i => thPc[j] = "none")
            => fd = Stdio

\* C4: timeout containment: a call returns Timeout only when the whole
\* deadline has passed, the task then ends with an extraction failure and
\* without a call of generate_summary; a call whose extraction never returns
\* returns nothing but Timeout, returns once, and can always go on to it;
\* and when main is done every item of the work list has an outcome.
C4_Timeout ==
    \A i \in Items :
        /\ extOut[i] = "Timeout" =>
              /\ waited[i] = Deadline
              /\ pc[i] = "done"
              /\ outcome[i] = "ExtractionFailed"
              /\ sum[i] = "none"
        /\ (thPc[i] = "hung" /\ extOut[i] # "none") => extOut[i] = "Timeout"
        /\ extOut[i] # "none" => pc[i] # "recv"
        /\ (thPc[i] = "hung" /\ pc[i] = "recv" /\ mainPc # "done")
              => ENABLED (Tick(i) \/ Timeout(i))
        /\ (mainPc = "done" /\ InTodo(i))
              => (pc[i] = "done" /\ outcome[i] # "none")

\* C4's case: the extraction of one item hangs and its call has returned
\* Timeout, and another item of the same chunk is Completed.
C4_Witness ==
    \E i, j \in Items :
        /\ SameChunk(i, j)
        /\ thPc[i] = "hung"
        /\ extOut[i] = "Timeout"
        /\ outcome[j] = "Completed"

\* An item of the chunk of a crashed extraction whose own stages succeeded
\* is Completed.
SiblingsOfCrashComplete ==
    \A i, j \in Items :
        (SameChunk(i, j) /\ extOut[i] = "Crashed" /\ pc[j] = "done"
            /\ extOut[j] = "Text" /\ sum[j] = "Ok" /\ outcome[j] # "Panicked")
            => outcome[j] = "Completed"

\* C5: crash containment: once the caller has taken the result of an
\* extraction that panicked in the thread, extract_text_silent has returned
\* Crashed and the task has ended normally with an extraction failure and
\* without a call of generate_summary; Crashed is returned for nothing but a
\* panic the thread caught and sent; every item of the same chunk whose own
\* stages succeeded is Completed.
C5_Crash ==
    /\ \A i \in Items :
          /\ (thRes[i] = "panic" /\ thPc[i] = "end" /\ pc[i] # "recv")
                => /\ extOut[i] = "Crashed"
                   /\ pc[i] = "done"
                   /\ outcome[i] = "ExtractionFailed"
                   /\ sum[i] = "none"
          /\ extOut[i] = "Crashed" => (thRes[i] = "panic" /\ thPc[i] = "end")
    /\ SiblingsOfCrashComplete

\* C5's case: the extraction of one item panicked and its call returned
\* Crashed, and another item of the same chunk is Completed.
C5_Witness ==
    \E i, j \in Items :
        /\ SameChunk(i, j)
        /\ extOut[i] = "Crashed"
        /\ thPc[i] = "end"
        /\ outcome[j] = "Completed"

\* C6: bounded retry: a call sends at most 3 requests, and every request
\* but the last one sent failed with a transport-level error, a 429 or a
\* 5xx.
C6_BoundedRetry ==
    /\ gs.sent <= 3
    /\ \A n \in 1..(Len(gs.hist) - 1) : RetryableResp(gs.hist[n])

\* C7: a malformed body is terminal: an attempt that got a success status
\* with an unparseable body is the last attempt of the call, and the call
\* does not succeed.
C7_MalformedIsTerminal ==
    \A n \in 1..Len(gs.hist) :
        MalformedResp(gs.hist[n]) => (n = Len(gs.hist) /\ gs.ret # "Ok")

\* C8: terminal statuses and empty choices: an attempt that got a
\* non-success status other than 429 and 5xx, or a parsed response with no
\* choices, is the last request of the call, the call has returned an error
\* at it, and no artifact is written for the item.
C8_Terminal ==
    \A n \in 1..Len(gs.hist) :
        TerminalResp(gs.hist[n]) =>
            /\ n = Len(gs.hist)
            /\ gs.sent = n
            /\ gs.ret = "Err"
            /\ gs.retries = 0
            /\ pc[1] \in {"summarize", "done"}
            /\ outcome[1] \in {"none", "SummarizationFailed"}
            /\ summary[summary_path(1)].st = "absent"

\* C8's case: the second attempt got a 404 and process_paper has returned.
C8_Witness ==
    /\ Len(gs.hist) = 2
    /\ gs.hist[2].kind = "http" /\ gs.hist[2].status = 404
    /\ pc[1] = "done"

\* C9: retry outcome: if attempts 1..k-1 fail retryably and attempt k gets
\* a success status with a well-formed non-empty response, the call returns
\* Ok at attempt k; if all 3 attempts fail retryably the call returns an
\* error that names 3 retries and carries the error of the 3rd attempt.
C9_RetryOutcome ==
    /\ \A k \in 1..Len(gs.hist) :
          ((\A n \in 1..(k - 1) : RetryableResp(gs.hist[n]))
              /\ OkResp(gs.hist[k]))
              => (gs.ret = "Ok" /\ Len(gs.hist) = k /\ gs.sent = k)
    /\ (gs.ret # "none" /\ Len(gs.hist) = 3
          /\ \A n \in 1..3 : RetryableResp(gs.hist[n]))
          => /\ gs.ret = "Err"
             /\ gs.retries = 3
             /\ gs.msg = ErrorOf(gs.hist[3])

\* C9's case: 429, 500, 503 and the call has returned.
C9_Witness ==
    /\ Len(gs.hist) = 3
    /\ gs.hist[1].status = 429
    /\ gs.hist[2].status = 500
    /\ gs.hist[3].status = 503
    /\ gs.ret = "Err"

NoArtifactBy(i) == \A n \in DOMAIN summary : summary[n].by # i

\* C11: strict stage order per item: a download is under way only if no
\* cached file was found; the extraction is started only after the download
\* and the size validation, on a file of 1000 bytes or more; generate_summary
\* is called only after the extraction returned non-empty text; the artifact
\* is written only by an item whose extraction returned non-empty text and
\* whose summarization returned Ok, and only under <key>-summary.md; an item
\* that fails at a stage has run no later stage and written no artifact.
C11_StageOrder ==
    \A i \in Items :
        /\ (UniqueKey(i) /\ pc[i] \in {"dl_net", "dl_create"})
              => pdf[key[i]] = NoFile
        /\ bytes[i] > 0 => pc[i] \in {"dl_create", "dl_write"}
        /\ (UniqueKey(i) /\ pc[i] \in {"extract", "recv"})
              => pdf[key[i]] >= MinPdfBytes
        /\ thPc[i] # "none" =>
              pc[i] \in {"recv", "summarize", "persist_create",
                         "persist_write", "done"}
        /\ pc[i] = "recv" => (extOut[i] = "none" /\ sum[i] = "none")
        /\ pc[i] = "summarize" => (extOut[i] = "Text" /\ sum[i] = "none")
        /\ sum[i] # "none" => extOut[i] = "Text"
        /\ pc[i] \in {"persist_create", "persist_write"}
              => (extOut[i] = "Text" /\ sum[i] = "Ok")
        /\ \A n \in DOMAIN summary :
              summary[n].by = i =>
                  /\ n = summary_path(i)
                  /\ extOut[i] = "Text"
                  /\ sum[i] = "Ok"
        /\ outcome[i] \in {"DownloadFailed", "CorruptDownload"} =>
              /\ pc[i] = "done"
              /\ thPc[i] = "none" /\ extOut[i] = "none" /\ sum[i] = "none"
              /\ NoArtifactBy(i)
        /\ outcome[i] = "ExtractionFailed" =>
              /\ pc[i] = "done"
              /\ extOut[i] \notin {"none", "Text"}
              /\ sum[i] = "none"
              /\ NoArtifactBy(i)
        /\ outcome[i] = "SummarizationFailed" =>
              /\ pc[i] = "done"
              /\ extOut[i] = "Text" /\ sum[i] = "Err"
              /\ NoArtifactBy(i)
        /\ outcome[i] = "Completed" =>
              /\ extOut[i] = "Text" /\ sum[i] = "Ok"

\* C11's case: one item has gone through every stage and written its
\* artifact, one has stopped at an empty extraction and one at a failed
\* summarization.
C11_Witness ==
    \E i, j, l \in Items :
        /\ outcome[i] = "Completed"
        /\ summary[summary_path(i)] = [st |-> "complete", by |-> i]
        /\ outcome[j] = "ExtractionFailed" /\ extOut[j] = "EmptyText"
        /\ outcome[l] = "SummarizationFailed"

\* C12: idempotency filter: once main has filtered, an item is excluded from
\* the work list if and only if summary/ held a file named <key>-summary.md
\* at startup, whatever the key and the directory; and an excluded item has
\* no task, so no download, no extraction and no generation request.
C12_FilterIff ==
    mainPc # "filter" =>
        \A i \in Items :
            /\ ~InTodo(i) <=> summary_path(i) \in read_dir
            /\ ~InTodo(i) =>
                  /\ outcome[i] = "Skipped"
                  /\ pc[i] = "idle" /\ spawns[i] = 0
                  /\ thPc[i] = "none" /\ sum[i] = "none"

\* An item that the run before neither skipped nor completed.
FailedEarlier(i) == earlier.outcome[i] \notin {"Skipped", "Completed"}

\* C13 as stated: run-level idempotency: when the second run on the same
\* feed is over, the set of artifact files equals the set the first run
\* left.
C13_AsStated ==
    (run = 2 /\ mainPc = "done") => read_dir = earlier.files

\* An item that the run before skipped, or completed under a key that does
\* not itself end with "-summary.md".
DoneEarlier(i) ==
    \/ earlier.outcome[i] = "Skipped"
    \/ earlier.outcome[i] = "Completed" /\ ~ends_with(key[i], <<Suffix>>)

\* C13 as amended: in the second run on the same feed every artifact file
\* the first run left is still there; an artifact file that the first run
\* did not leave is the artifact of an item that the first run neither
\* skipped nor completed, so the two sets are equal when the first run
\* skipped or completed every item; and every item that the first run
\* skipped, or completed under a key that does not itself end with
\* "-summary.md", is skipped by the second run and gets no task.
C13_SecondRun ==
    run = 2 =>
        /\ earlier.files \subseteq read_dir
        /\ \A n \in read_dir \ earlier.files :
              \E i \in Items : n = summary_path(i) /\ FailedEarlier(i)
        /\ (\A i \in Items : ~FailedEarlier(i)) => read_dir = earlier.files
        /\ mainPc # "filter" =>
              \A i \in Items :
                  DoneEarlier(i) =>
                      /\ ~InTodo(i) /\ spawns[i] = 0 /\ pc[i] = "idle"
                      /\ outcome[i] = "Skipped"

\* C13's case: the second run is over; it has skipped the item the first
\* run completed and the items the first run skipped.
C13_Witness ==
    /\ run = 2
    /\ mainPc = "done"
    /\ \E i, j \in Items :
          /\ earlier.outcome[i] = "Completed" /\ outcome[i] = "Skipped"
          /\ earlier.outcome[j] = "Skipped" /\ outcome[j] = "Skipped"

\* C14: duplicate keys do not clobber: of two items with the same key, for
\* which no artifact existed at startup, at most one writes the artifact:
\* they are not both Completed, and the artifact that a Completed item wrote
\* has not been written by the other item since.
C14_NoClobber ==
    \A i, j \in Items :
        (i # j /\ key[i] = key[j] /\ outcome[i] = "Completed") =>
            /\ outcome[j] # "Completed"
            /\ summary[summary_path(i)].by # j

\* C15: no half-written artifact: in every reachable state, also after a
\* task has failed or panicked while persisting, every file of summary/ is
\* absent or holds a complete summary document; no file has partial
\* content.
C15_NoPartial ==
    \A n \in DOMAIN summary : summary[n].st \in {"absent", "complete"}

\* C16: nested sandbox lifetime: while the process lives, the extraction
\* thread of an item whose task has ended, and so of every item whose task
\* main has joined, has ended too, on the success, crash and timeout paths.
C16_ThreadEndsFirst ==
    \A i \in Items :
        (mainPc # "done" /\ (pc[i] = "done" \/ joins[i] > 0))
            => thPc[i] \in {"none", "end"}

\* The tasks main has joined.
Joined == {i \in Items : joins[i] > 0}

\* What C17 says of the counter and of the values printed, apart from when
\* they are printed: the counter is the number of joins, panicked tasks
\* included; the printed values are strictly increasing and none exceeds
\* total; when main is done the counter is total and, if anything was
\* printed, the last printed value is total.
CounterCounts ==
    /\ processed = Cardinality(Joined)
    /\ \A n \in 1..Len(printed) :
          /\ printed[n] <= Len(todo)
          /\ n > 1 => printed[n] > printed[n - 1]
    /\ mainPc = "done" =>
          /\ processed = Len(todo)
          /\ printed # << >> => printed[Len(printed)] = Len(todo)

\* C17 as stated: the progress counter counts every join, its printed values
\* are strictly increasing up to total, and a value is printed only after
\* the group it belongs to has drained: while a task of the current group
\* still runs, no value printed so far exceeds the number of papers in the
\* groups before.
C17_AsStated ==
    /\ CounterCounts
    /\ (\E k \in 1..Len(handles) : pc[handles[k]] # "done")
          => \A n \in 1..Len(printed) : printed[n] <= base

\* C17 as amended: the progress counter counts every join, its printed values
\* are strictly increasing up to total, and a value is printed right after
\* each join, while the group drains: the values printed so far are
\* 1, 2, .. up to the counter, the n-th of them was printed after the task
\* of the n-th paper of the work list had ended and been joined, and after
\* every task of the groups before had been joined.
C17_Progress ==
    /\ CounterCounts
    /\ printed = [n \in 1..processed |-> n]
    /\ base <= processed /\ processed <= ChunkEnd(base)
    /\ \A n \in 1..Len(printed) :
          /\ joins[todo[n]] = 1
          /\ pc[todo[n]] = "done"

\* C17's case: main is done, has joined three tasks of which one panicked,
\* and the last value printed is 3.
C17_Witness ==
    /\ mainPc = "done"
    /\ Len(todo) = 3
    /\ printed = <<1, 2, 3>>
    /\ \E i \in Items : outcome[i] = "Panicked"

\* C18: suppression does not leak under concurrency: in a state in which
\* every extraction thread that was started has finished, whatever the
\* interleaving of their dup and dup2 calls was, fd 1 and fd 2 refer to the
\* original standard output and standard error and not to the null sink.
C18_NoLeak ==
    (\A i \in Items : thPc[i] \in {"none", "end"}) => fd = Stdio

\* Main has printed Done and every item of the work list has a terminal
\* outcome.
RunOver ==
    /\ mainPc = "done"
    /\ \A i \in Items : InTodo(i) => (pc[i] = "done" /\ outcome[i] # "none")

\* C19: the run always terminates: under fair scheduling every run reaches
\* a state in which every item task has a terminal outcome and main has
\* printed Done, also when extractions never return or panic and when every
\* generation request fails.
C19_Terminates == <>RunOver

\* C19's case: the run is over although the extraction of one item never
\* returned, the extraction of another item panicked and the summarization
\* of a third item failed.
C19_Witness ==
    /\ RunOver
    /\ \E i, j, l \in Items :
          /\ thPc[i] = "hung" /\ extOut[i] = "Timeout"
          /\ extOut[j] = "Crashed"
          /\ outcome[l] = "SummarizationFailed"

\* C20: extraction reads only a validated file: whenever the extraction
\* thread of an item is about to read papers/<key>.pdf, the file exists and
\* holds 1000 bytes or more, also when another item of the group has the
\* same key.
C20_ReadsValidated ==
    \A i \in Items :
        thPc[i] = "call" =>
            (pdf[key[i]] # NoFile /\ pdf[key[i]] >= MinPdfBytes)

====
